---- MODULE Spec2Model ----
(***************************************************************************)
(* A model of Text_Twist.py: the word solver (get_possible_words) and the  *)
(* main_game loop (timer tick, event handlers, completion check, game-over *)
(* name entry) together with the run() loop that starts the next session.  *)
(*                                                                         *)
(* A character is a one-character TLA+ string, a Python string is a        *)
(* sequence of characters, so "eat" is <<"e","a","t">>.  current_guess, a  *)
(* Python list of one-character strings, is a sequence of characters too   *)
(* and "".join(current_guess) is that same sequence.                       *)
(***************************************************************************)
EXTENDS Integers, Sequences, FiniteSets, TLC

VARIABLES
    valid_words,      \* load_words(): the dictionary (membership only)
    possible_words,   \* sorted list returned by get_possible_words
    found_words,      \* set of visible words found
    bonus_found,      \* set of bonus dictionary words claimed
    score,
    message,          \* kind of the last message shown ("Good!", "Bonus!", ...)
    current_guess,    \* list of selected letters, in selection order
    timer_seconds,
    game_over,
    letter_buttons,   \* list of [text, is_selected], in display order
    now,              \* pygame.time.get_ticks() as last read, in ms
    last_tick,
    running,
    pc,               \* position of the program: "tick", "events",
                      \* "name_entry", "returned" (main_game returned to
                      \* run()), "exited" (process ended)
    status,           \* which assignment ended the session: "Active" while
                      \* game_over is False, "Expired" when the timer tick
                      \* set it, "Complete" when the completion check set it
    saved,            \* number of save_score calls made by this session
    solver,           \* a get_possible_words call studied on its own: its
                      \* arguments and its result (idle while a game runs)
    store             \* SCORES_FILE and the save_score calls studied on
                      \* their own (idle while a game runs)

vars == <<valid_words, possible_words, found_words, bonus_found, score,
          message, current_guess, timer_seconds, game_over, letter_buttons,
          now, last_tick, running, pc, status, saved, solver, store>>

\* the variables of main_game
game_vars == <<valid_words, possible_words, found_words, bonus_found, score,
               message, current_guess, timer_seconds, game_over,
               letter_buttons, now, last_tick, running, pc, status, saved>>

\* solver and store while a game runs
Idle == [phase |-> "idle"]

----------------------------------------------------------------------------
(* Bounds of the model *)

\* largest clock reading (ms since the session was set up) that is explored
MaxNow == 20000

\* time that may pass between two readings of the clock at the top of the loop
Gaps == {0, 2500, 15000}

\* the difficulty menu offers lengths 4..7; the model plays three-letter seeds
WordLengths == {3}

\* words.txt
Dictionary ==
    { <<"e","a","t">>, <<"a","t","e">>, <<"t","e","a">>,
      <<"t","a","n">>, <<"t","e","e">>, <<"a","n">> }

\* keys the player may press
Keys == {"a", "e", "n", "t"}

----------------------------------------------------------------------------
(* Characters and strings *)

\* the characters of the model in code point order
Chars == <<" ", "A", "E", "N", "T", "a", "e", "n", "t">>

CharOrd(c) == CHOOSE i \in 1..Len(Chars) : Chars[i] = c

LowerOf == [c \in {Chars[i] : i \in 1..Len(Chars)} |->
              CASE c = "A" -> "a" [] c = "E" -> "e" [] c = "N" -> "n"
                [] c = "T" -> "t" [] OTHER -> c]

UpperOf == [c \in {Chars[i] : i \in 1..Len(Chars)} |->
              CASE c = "a" -> "A" [] c = "e" -> "E" [] c = "n" -> "N"
                [] c = "t" -> "T" [] OTHER -> c]

\* str.lower()
StrLower(s) == [i \in 1..Len(s) |-> LowerOf[s[i]]]

\* str.strip(): drop leading and trailing whitespace
RECURSIVE LStrip(_)
LStrip(s) == IF s # <<>> /\ Head(s) = " " THEN LStrip(Tail(s)) ELSE s

RECURSIVE RStrip(_)
RStrip(s) == IF s # <<>> /\ s[Len(s)] = " "
             THEN RStrip(SubSeq(s, 1, Len(s) - 1)) ELSE s

Strip(s) == RStrip(LStrip(s))

Range(s) == {s[i] : i \in 1..Len(s)}

\* Python's string comparison u < v (lexicographic by code point)
RECURSIVE StrLess(_, _)
StrLess(u, v) ==
    IF v = <<>> THEN FALSE
    ELSE IF u = <<>> THEN TRUE
    ELSE IF Head(u) # Head(v) THEN CharOrd(Head(u)) < CharOrd(Head(v))
    ELSE StrLess(Tail(u), Tail(v))

\* the sort key without the length
KeyLess_LexOnly(u, v) == StrLess(u, v)

\* the sort key (len(w), w)
KeyLess(u, v) == Len(u) < Len(v) \/ (Len(u) = Len(v) /\ StrLess(u, v))

\* sorted(S, key=lambda w: (len(w), w))
RECURSIVE SortedByKey(_)
SortedByKey(S) ==
    IF S = {} THEN <<>>
    ELSE LET m == CHOOSE x \in S : \A y \in S \ {x} : KeyLess(x, y)
         IN  <<m>> \o SortedByKey(S \ {m})

\* all orderings of a list (the outcomes of random.shuffle)
Shuffles(s) ==
    { [i \in 1..Len(s) |-> s[p[i]]] :
        p \in {q \in [1..Len(s) -> 1..Len(s)] :
                 \A i, j \in 1..Len(s) : q[i] = q[j] => i = j} }

----------------------------------------------------------------------------
(* Game helpers *)

\* generate_letters(word): the shuffled lists of letters of word
generate_letters(word) == Shuffles(word)

\* itertools.permutations(letters, i), joined to strings
PermStrings(letters, i) ==
    { [k \in 1..i |-> letters[p[k]]] :
        p \in {q \in [1..i -> 1..Len(letters)] :
                 \A a, b \in 1..i : q[a] = q[b] => a = b} }

\* the lengths starting at 2 instead of 3
get_possible_words_FromTwo(letters, words, main_word) ==
    SortedByKey(
        { c \in UNION {PermStrings(letters, i) : i \in 2..Len(letters)} :
            c \in words } \cup {main_word})

\* the lengths stopping before len(letters)
get_possible_words_NoFull(letters, words, main_word) ==
    SortedByKey(
        { c \in UNION {PermStrings(letters, i) : i \in 3..(Len(letters) - 1)} :
            c \in words } \cup {main_word})

\* nothing but the seed
get_possible_words_SeedOnly(letters, words, main_word) ==
    SortedByKey({main_word})

get_possible_words(letters, words, main_word) ==
    SortedByKey(
        { c \in UNION {PermStrings(letters, i) : i \in 3..Len(letters)} :
            c \in words } \cup {main_word})

----------------------------------------------------------------------------
(* Program constants *)

FallbackLength == 6
MinTimer == 10
SecondsPerWord == 9
time_bonus_per_letter == 2
PointsPerLetter == 10
BonusPointsPerLetter == 5
\* the completion bonus halved
CompletionBonus_Half == 100 \div 2
CompletionBonus == 100
MsPerSecond == 1000

----------------------------------------------------------------------------
(* Session set-up: main_game up to the start of the loop *)

\* the timer taken as the smaller of the two values
InitialTimer_Min(pw) ==
    IF Len(pw) * SecondsPerWord < MinTimer
    THEN Len(pw) * SecondsPerWord ELSE MinTimer

\* candidate seed words of the chosen length, else of the fallback length
Candidates(words, word_length) ==
    LET chosen == {w \in words : Len(w) = word_length}
    IN  IF chosen # {} THEN chosen
        ELSE {w \in words : Len(w) = FallbackLength}

InitialTimer(pw) ==
    IF Len(pw) * SecondsPerWord > MinTimer
    THEN Len(pw) * SecondsPerWord ELSE MinTimer

\* one Button per letter, labelled with the upper-case letter, not selected
MakeButtons(letters) ==
    [i \in 1..Len(letters) |->
        [text |-> UpperOf[letters[i]], is_selected |-> FALSE]]

\* the words of the left panel, group by group in ascending length
RECURSIVE GroupedWords(_, _)
GroupedWords(pw, lengths) ==
    IF lengths = {} THEN <<>>
    ELSE LET l == CHOOSE x \in lengths : \A y \in lengths : x <= y
         IN  SelectSeq(pw, LAMBDA w : Len(w) = l)
               \o GroupedWords(pw, lengths \ {l})

visible_required_words == GroupedWords(possible_words,
                                       {Len(w) : w \in Range(possible_words)})

\* the state in which main_game enters its loop, for seed random_word and
\* the shuffled letters
Setup(words, random_word, letters) ==
    LET pw == get_possible_words(letters, words, random_word)
    IN  [valid_words    |-> words,
         possible_words |-> pw,
         timer_seconds  |-> InitialTimer(pw),
         letter_buttons |-> MakeButtons(letters)]

\* every state in which a main_game call can enter its loop
NewSessions ==
    UNION { UNION { { Setup(Dictionary, random_word, letters) :
                        letters \in generate_letters(random_word) } :
                    random_word \in Candidates(Dictionary, wl) } :
            wl \in WordLengths }

Init ==
    \E s \in NewSessions :
        /\ valid_words = s.valid_words
        /\ possible_words = s.possible_words
        /\ timer_seconds = s.timer_seconds
        /\ letter_buttons = s.letter_buttons
        /\ found_words = {}
        /\ bonus_found = {}
        /\ score = 0
        /\ message = ""
        /\ current_guess = <<>>
        /\ game_over = FALSE
        /\ now = 0
        /\ last_tick = 0
        /\ running = TRUE
        /\ pc = "tick"
        /\ status = "Active"
        /\ saved = 0
        /\ solver = Idle
        /\ store = Idle

----------------------------------------------------------------------------
(* Top of the loop: the timer *)

\* a tick that ends the game only when the timer lands exactly on 0
TickTimer_ExactZero(timer, over, dec) ==
    IF over THEN [timer |-> timer, over |-> over]
    ELSE IF timer - dec = 0 THEN [timer |-> 0, over |-> TRUE]
    ELSE [timer |-> timer - dec, over |-> FALSE]

\* timer_seconds and game_over after dec whole seconds have elapsed
TickTimer(timer, over, dec) ==
    IF over THEN [timer |-> timer, over |-> over]
    ELSE IF timer - dec <= 0 THEN [timer |-> 0, over |-> TRUE]
    ELSE [timer |-> timer - dec, over |-> FALSE]

\* last_tick set to the clock reading, the part of a second dropped
AdvanceTick_ToNow(last, reading, dec) ==
    last + (reading - last)

\* last_tick += dec * 1000
AdvanceTick(last, reading, dec) ==
    last + dec * MsPerSecond

Tick ==
    /\ pc = "tick"
    /\ \E gap \in Gaps :
         /\ now + gap <= MaxNow
         /\ now' = now + gap
    /\ LET elapsed == now' - last_tick
           dec == elapsed \div MsPerSecond
           r == TickTimer(timer_seconds, game_over, dec)
       IN  IF elapsed >= MsPerSecond
           THEN /\ timer_seconds' = r.timer
                /\ game_over' = r.over
                /\ status' = IF r.over /\ ~game_over THEN "Expired" ELSE status
                /\ last_tick' = AdvanceTick(last_tick, now', dec)
           ELSE UNCHANGED <<timer_seconds, game_over, status, last_tick>>
    /\ pc' = "events"
    /\ UNCHANGED <<valid_words, possible_words, found_words, bonus_found,
                   score, message, current_guess, letter_buttons, running,
                   saved>>
    /\ UNCHANGED <<solver, store>>

----------------------------------------------------------------------------
(* Event handlers of the loop *)

Deselected(buttons) ==
    [i \in 1..Len(buttons) |-> [buttons[i] EXCEPT !.is_selected = FALSE]]

\* a deselection that leaves the letter in the list
RemoveFirst_Keep(s, x) ==
    s

\* list.remove(x): drop the first occurrence of x
RemoveFirst(s, x) ==
    IF x \in Range(s)
    THEN LET k == CHOOSE i \in 1..Len(s) :
                    s[i] = x /\ \A j \in 1..(i - 1) : s[j] # x
         IN  SubSeq(s, 1, k - 1) \o SubSeq(s, k + 1, Len(s))
    ELSE s

\* "".join(current_guess).lower().strip()
GuessOf(cg) == Strip(StrLower(cg))

\* KEYDOWN of a letter: select the first unused button showing that letter
KeyLetter(key) ==
    /\ pc = "events"
    /\ LET free == {i \in 1..Len(letter_buttons) :
                      /\ LowerOf[letter_buttons[i].text] = key
                      /\ ~letter_buttons[i].is_selected}
       IN  IF free # {}
           THEN LET b == CHOOSE i \in free : \A j \in free : i <= j
                IN  /\ letter_buttons' =
                         [letter_buttons EXCEPT ![b].is_selected = TRUE]
                    /\ current_guess' =
                         Append(current_guess, LowerOf[letter_buttons[b].text])
           ELSE UNCHANGED <<letter_buttons, current_guess>>
    /\ UNCHANGED <<valid_words, possible_words, found_words, bonus_found,
                   score, message, timer_seconds, game_over, now, last_tick,
                   running, pc, status, saved>>
    /\ UNCHANGED <<solver, store>>

\* the bonus test without "not in possible_words"
ReturnBranch_BonusFirst(guess) ==
    IF guess = <<>> THEN "No input!"
    ELSE IF guess \in found_words THEN "Already found!"
    ELSE IF guess \in bonus_found THEN "Already found!"
    ELSE IF guess \in valid_words THEN "Bonus!"
    ELSE IF guess \in Range(possible_words) /\ guess \notin found_words
         THEN "Good!"
    ELSE "Invalid!"

\* the K_RETURN handler without its test of bonus_found
ReturnBranch_NoBonusFound(guess) ==
    IF guess = <<>> THEN "No input!"
    ELSE IF guess \in found_words THEN "Already found!"
    ELSE IF guess \in valid_words /\ guess \notin Range(possible_words)
         THEN "Bonus!"
    ELSE IF guess \in Range(possible_words) /\ guess \notin found_words
         THEN "Good!"
    ELSE "Invalid!"

\* the branch the K_RETURN handler takes for guess
ReturnBranch(guess) ==
    IF guess = <<>> THEN "No input!"
    ELSE IF guess \in found_words THEN "Already found!"
    ELSE IF guess \in bonus_found THEN "Already found!"
    ELSE IF guess \in valid_words /\ guess \notin Range(possible_words)
         THEN "Bonus!"
    ELSE IF guess \in Range(possible_words) /\ guess \notin found_words
         THEN "Good!"
    ELSE "Invalid!"

\* visible words scored at the bonus rate
ReturnPoints_BonusRate(branch, guess) ==
    IF branch = "Bonus!" THEN Len(guess) * BonusPointsPerLetter
    ELSE IF branch = "Good!" THEN Len(guess) * BonusPointsPerLetter
    ELSE 0

\* pts of the K_RETURN handler
ReturnPoints(branch, guess) ==
    IF branch = "Bonus!" THEN Len(guess) * BonusPointsPerLetter
    ELSE IF branch = "Good!" THEN Len(guess) * PointsPerLetter
    ELSE 0

\* the time bonus granted outside the scoring branches
ReturnSeconds_Always(branch, guess) ==
    IF branch = "Bonus!" THEN Len(guess)
    ELSE Len(guess) * time_bonus_per_letter

\* seconds the K_RETURN handler adds to timer_seconds
ReturnSeconds(branch, guess) ==
    IF branch = "Bonus!" THEN Len(guess)
    ELSE IF branch = "Good!" THEN Len(guess) * time_bonus_per_letter
    ELSE 0

\* KEYDOWN of K_RETURN: submit the guess, then reset the selection
KReturn ==
    /\ pc = "events"
    /\ LET guess == GuessOf(current_guess)
           branch == ReturnBranch(guess)
       IN  /\ message' = branch
           /\ bonus_found' = IF branch = "Bonus!"
                             THEN bonus_found \cup {guess} ELSE bonus_found
           /\ found_words' = IF branch = "Good!"
                             THEN found_words \cup {guess} ELSE found_words
           /\ score' = score + ReturnPoints(branch, guess)
           /\ timer_seconds' = timer_seconds + ReturnSeconds(branch, guess)
    /\ current_guess' = <<>>
    /\ letter_buttons' = Deselected(letter_buttons)
    /\ UNCHANGED <<valid_words, possible_words, game_over, now, last_tick,
                   running, pc, status, saved>>
    /\ UNCHANGED <<solver, store>>

\* the SUBMIT bonus test without "not in possible_words"
SubmitBranch_BonusFirst(guess) ==
    IF guess = <<>> THEN "No input!"
    ELSE IF guess \in found_words \/ guess \in bonus_found
         THEN "Already found!"
    ELSE IF guess \in valid_words THEN "Bonus!"
    ELSE IF guess \in Range(possible_words) /\ guess \notin found_words
         THEN "Good!"
    ELSE "Invalid!"

\* the already-found test without bonus_found
SubmitBranch_NoBonusCheck(guess) ==
    IF guess = <<>> THEN "No input!"
    ELSE IF guess \in found_words THEN "Already found!"
    ELSE IF guess \in valid_words /\ guess \notin Range(possible_words)
         THEN "Bonus!"
    ELSE IF guess \in Range(possible_words) /\ guess \notin found_words
         THEN "Good!"
    ELSE "Invalid!"

\* the branch the SUBMIT button handler takes for guess
SubmitBranch(guess) ==
    IF guess = <<>> THEN "No input!"
    ELSE IF guess \in found_words \/ guess \in bonus_found
         THEN "Already found!"
    ELSE IF guess \in valid_words /\ guess \notin Range(possible_words)
         THEN "Bonus!"
    ELSE IF guess \in Range(possible_words) /\ guess \notin found_words
         THEN "Good!"
    ELSE "Invalid!"

\* bonus points subtracted instead of added
SubmitPoints_Negative(branch, guess) ==
    IF branch = "Bonus!" THEN 0 - Len(guess) * BonusPointsPerLetter
    ELSE IF branch = "Good!" THEN Len(guess) * PointsPerLetter
    ELSE 0

\* pts of the SUBMIT handler
SubmitPoints(branch, guess) ==
    IF branch = "Bonus!" THEN Len(guess) * BonusPointsPerLetter
    ELSE IF branch = "Good!" THEN Len(guess) * PointsPerLetter
    ELSE 0

\* bonus words granted the full time bonus
SubmitSeconds_FullBonus(branch, guess) ==
    IF branch = "Bonus!" THEN Len(guess) * time_bonus_per_letter
    ELSE IF branch = "Good!" THEN Len(guess) * time_bonus_per_letter
    ELSE 0

\* seconds the SUBMIT handler adds to timer_seconds
SubmitSeconds(branch, guess) ==
    IF branch = "Bonus!" THEN Len(guess)
    ELSE IF branch = "Good!" THEN Len(guess) * time_bonus_per_letter
    ELSE 0

\* click on SUBMIT: submit the guess, then reset the selection
ClickSubmit ==
    /\ pc = "events"
    /\ LET guess == GuessOf(current_guess)
           branch == SubmitBranch(guess)
       IN  /\ message' = branch
           /\ bonus_found' = IF branch = "Bonus!"
                             THEN bonus_found \cup {guess} ELSE bonus_found
           /\ found_words' = IF branch = "Good!"
                             THEN found_words \cup {guess} ELSE found_words
           /\ score' = score + SubmitPoints(branch, guess)
           /\ timer_seconds' = timer_seconds + SubmitSeconds(branch, guess)
    /\ current_guess' = <<>>
    /\ letter_buttons' = Deselected(letter_buttons)
    /\ UNCHANGED <<valid_words, possible_words, game_over, now, last_tick,
                   running, pc, status, saved>>
    /\ UNCHANGED <<solver, store>>

\* KEYDOWN of K_BACKSPACE: reset the selection
KBackspace ==
    /\ pc = "events"
    /\ current_guess' = <<>>
    /\ letter_buttons' = Deselected(letter_buttons)
    /\ UNCHANGED <<valid_words, possible_words, found_words, bonus_found,
                   score, message, timer_seconds, game_over, now, last_tick,
                   running, pc, status, saved>>
    /\ UNCHANGED <<solver, store>>

\* click on CLEAR: reset the selection
ClickClear ==
    /\ pc = "events"
    /\ current_guess' = <<>>
    /\ letter_buttons' = Deselected(letter_buttons)
    /\ UNCHANGED <<valid_words, possible_words, found_words, bonus_found,
                   score, message, timer_seconds, game_over, now, last_tick,
                   running, pc, status, saved>>
    /\ UNCHANGED <<solver, store>>

\* a shuffle that rebuilds the buttons and loses their selection
KSpace_Rebuild ==
    /\ pc = "events"
    /\ letter_buttons' \in Shuffles(Deselected(letter_buttons))
    /\ UNCHANGED <<valid_words, possible_words, found_words, bonus_found,
                   score, message, current_guess, timer_seconds, game_over,
                   now, last_tick, running, pc, status, saved>>
    /\ UNCHANGED <<solver, store>>

\* KEYDOWN of K_SPACE: shuffle the letter buttons
KSpace ==
    /\ pc = "events"
    /\ letter_buttons' \in Shuffles(letter_buttons)
    /\ UNCHANGED <<valid_words, possible_words, found_words, bonus_found,
                   score, message, current_guess, timer_seconds, game_over,
                   now, last_tick, running, pc, status, saved>>
    /\ UNCHANGED <<solver, store>>

\* click on SHUFFLE: shuffle the letter buttons
ClickShuffle ==
    /\ pc = "events"
    /\ letter_buttons' \in Shuffles(letter_buttons)
    /\ UNCHANGED <<valid_words, possible_words, found_words, bonus_found,
                   score, message, current_guess, timer_seconds, game_over,
                   now, last_tick, running, pc, status, saved>>
    /\ UNCHANGED <<solver, store>>

\* click on the i-th letter button: select it, or deselect it
ClickLetter(i) ==
    /\ pc = "events"
    /\ i \in 1..Len(letter_buttons)
    /\ LET button == letter_buttons[i]
       IN  IF ~button.is_selected
           THEN /\ letter_buttons' =
                     [letter_buttons EXCEPT ![i].is_selected = TRUE]
                /\ current_guess' =
                     Append(current_guess, LowerOf[button.text])
           ELSE /\ letter_buttons' =
                     [letter_buttons EXCEPT ![i].is_selected = FALSE]
                /\ current_guess' =
                     RemoveFirst(current_guess, LowerOf[button.text])
    /\ UNCHANGED <<valid_words, possible_words, found_words, bonus_found,
                   score, message, timer_seconds, game_over, now, last_tick,
                   running, pc, status, saved>>
    /\ UNCHANGED <<solver, store>>

\* main_game is left: its frame is gone.  The model keeps the session's
\* result (words found, score, timer, status, saves) for inspection and
\* drops the widgets, the message and the clock readings
LeaveGame(to) ==
    /\ pc' = to
    /\ current_guess' = <<>>
    /\ letter_buttons' = <<>>
    /\ message' = ""
    /\ now' = 0
    /\ last_tick' = 0
    /\ running' = TRUE
    /\ UNCHANGED <<valid_words, possible_words, found_words, bonus_found,
                   score, timer_seconds, game_over, status>>

\* Escape saving the score on its way out
KEscape_Save ==
    /\ pc = "events"
    /\ LeaveGame("returned")
    /\ saved' = saved + 1
    /\ UNCHANGED <<solver, store>>

\* KEYDOWN of K_ESCAPE: main_game returns to the difficulty menu
KEscape ==
    /\ pc = "events"
    /\ LeaveGame("returned")
    /\ UNCHANGED saved
    /\ UNCHANGED <<solver, store>>

\* click on NEW GAME: main_game returns to the difficulty menu
ClickNewGame ==
    /\ pc = "events"
    /\ LeaveGame("returned")
    /\ UNCHANGED saved
    /\ UNCHANGED <<solver, store>>

\* QUIT event: the loop ends after this iteration
Quit ==
    /\ pc = "events"
    /\ running
    /\ running' = FALSE
    /\ UNCHANGED <<valid_words, possible_words, found_words, bonus_found,
                   score, message, current_guess, timer_seconds, game_over,
                   letter_buttons, now, last_tick, pc, status, saved>>
    /\ UNCHANGED <<solver, store>>

----------------------------------------------------------------------------
(* After the events of an iteration: completion check, game-over branch *)

\* the completion test met by any one word found
AllFound_Any == \E w \in Range(visible_required_words) : w \in found_words

\* all(w in found_words for w in visible_required_words)
AllFound == \A w \in Range(visible_required_words) : w \in found_words

EndFrame ==
    /\ pc = "events"
    /\ IF AllFound
       THEN /\ message' = "All words found!"
            /\ score' = score + CompletionBonus
            /\ game_over' = TRUE
            /\ status' = "Complete"
       ELSE UNCHANGED <<message, score, game_over, status>>
    /\ pc' = IF game_over' \/ timer_seconds <= 0 THEN "name_entry"
             ELSE IF running THEN "tick"
             ELSE "exited"
    /\ IF pc' = "exited"
       THEN /\ current_guess' = <<>>
            /\ letter_buttons' = <<>>
            /\ now' = 0
            /\ last_tick' = 0
            /\ running' = TRUE
       ELSE UNCHANGED <<current_guess, letter_buttons, now, last_tick,
                        running>>
    /\ UNCHANGED <<valid_words, possible_words, found_words, bonus_found,
                   timer_seconds, saved>>
    /\ UNCHANGED <<solver, store>>

----------------------------------------------------------------------------
(* Game-over name entry *)

\* K_RETURN in the name entry: save_score is called and main_game returns
NameEnter ==
    /\ pc = "name_entry"
    /\ saved' = saved + 1
    /\ LeaveGame("returned")
    /\ UNCHANGED <<solver, store>>

\* QUIT in the name entry: pygame.quit() and return without saving
NameQuit ==
    /\ pc = "name_entry"
    /\ LeaveGame("exited")
    /\ UNCHANGED saved
    /\ UNCHANGED <<solver, store>>

\* a new game that carries the score over
StartGame_KeepScore ==
    /\ pc = "returned"
    /\ \E s \in NewSessions :
         /\ valid_words' = s.valid_words
         /\ possible_words' = s.possible_words
         /\ timer_seconds' = s.timer_seconds
         /\ letter_buttons' = s.letter_buttons
    /\ found_words' = {}
    /\ bonus_found' = {}
    /\ score' = score
    /\ message' = ""
    /\ current_guess' = <<>>
    /\ game_over' = FALSE
    /\ now' = 0
    /\ last_tick' = 0
    /\ running' = TRUE
    /\ pc' = "tick"
    /\ status' = "Active"
    /\ saved' = 0
    /\ UNCHANGED <<solver, store>>

----------------------------------------------------------------------------
(* run(): after main_game returns, the menu and the next main_game *)

StartGame ==
    /\ pc = "returned"
    /\ \E s \in NewSessions :
         /\ valid_words' = s.valid_words
         /\ possible_words' = s.possible_words
         /\ timer_seconds' = s.timer_seconds
         /\ letter_buttons' = s.letter_buttons
    /\ found_words' = {}
    /\ bonus_found' = {}
    /\ score' = 0
    /\ message' = ""
    /\ current_guess' = <<>>
    /\ game_over' = FALSE
    /\ now' = 0
    /\ last_tick' = 0
    /\ running' = TRUE
    /\ pc' = "tick"
    /\ status' = "Active"
    /\ saved' = 0
    /\ UNCHANGED <<solver, store>>

Next ==
    \/ Tick
    \/ \E key \in Keys : KeyLetter(key)
    \/ KReturn
    \/ KBackspace
    \/ KSpace
    \/ KEscape
    \/ \E i \in 1..Len(letter_buttons) : ClickLetter(i)
    \/ ClickSubmit
    \/ ClickClear
    \/ ClickShuffle
    \/ ClickNewGame
    \/ Quit
    \/ EndFrame
    \/ NameEnter
    \/ NameQuit
    \/ StartGame

Spec == Init /\ [][Next]_vars

----------------------------------------------------------------------------
(* get_possible_words on its own: any dictionary, seed and letters *)

\* calls made on one set of arguments
MaxCalls == 2

\* the words dictionaries are made of
SolverWords ==
    { <<"a","n">>, <<"e","a","t">>, <<"a","t","e">>, <<"t","e","a">>,
      <<"t","a","n">>, <<"t","e","e">>, <<"n","e","a","t">> }

\* the dictionaries: the empty one, those of one word, those that lack at
\* most one word, and the one of scenario A (eat, ate, tea, tan)
SolverDictionaries ==
    { D \in SUBSET SolverWords :
        Cardinality(D) <= 1 \/ Cardinality(D) >= Cardinality(SolverWords) - 1 }
    \cup { { <<"e","a","t">>, <<"a","t","e">>, <<"t","e","a">>,
             <<"t","a","n">> } }

\* no game is running
GameOff ==
    /\ valid_words = {}
    /\ possible_words = <<>>
    /\ found_words = {}
    /\ bonus_found = {}
    /\ score = 0
    /\ message = ""
    /\ current_guess = <<>>
    /\ timer_seconds = 0
    /\ game_over = FALSE
    /\ letter_buttons = <<>>
    /\ now = 0
    /\ last_tick = 0
    /\ running = FALSE
    /\ pc = "off"
    /\ status = "Active"
    /\ saved = 0

\* the arguments: a dictionary, a seed (in it or not, of any length) and
\* letters that are a shuffle of the seed or the letters of another word
SolverInit ==
    /\ GameOff
    /\ store = Idle
    /\ \E words \in SolverDictionaries :
         \E main_word \in SolverWords :
           \E letters \in generate_letters(main_word) \cup SolverWords :
             solver = [phase |-> "solver", letters |-> letters,
                       words |-> words, main_word |-> main_word,
                       result |-> <<>>, raised |-> "none", calls |-> 0]

\* possible_words = get_possible_words(letters, valid_words, random_word);
\* the function has no raise statement, so the call always returns
Solve ==
    /\ solver.phase = "solver"
    /\ solver.calls < MaxCalls
    /\ solver' = [solver EXCEPT
                    !.result = get_possible_words(solver.letters, solver.words,
                                                  solver.main_word),
                    !.calls = @ + 1]
    /\ UNCHANGED <<game_vars, store>>

\* the same call after random.shuffle(letters)
SolveShuffled ==
    /\ solver.phase = "solver"
    /\ solver.calls < MaxCalls
    /\ \E letters \in Shuffles(solver.letters) :
         solver' = [solver EXCEPT
                      !.letters = letters,
                      !.result = get_possible_words(letters, solver.words,
                                                    solver.main_word),
                      !.calls = @ + 1]
    /\ UNCHANGED <<game_vars, store>>

SolverNext == Solve \/ SolveShuffled

SolverSpec == SolverInit /\ [][SolverNext]_vars

----------------------------------------------------------------------------
(* The leaderboard file on its own: load_scores and save_score *)

\* save_score calls made on one stored file
MaxSaves == 2

\* entries of equal score that may fill the stored list
MaxFill == 20

\* the leaderboard keeps the top 20
TopScores == 20

\* scores a session can end with: nothing, one word, a completed session
StoreScores == {0, 30, 140}

Entry(name, points) == [name |-> name, score |-> points]

\* all lists of at most n entries named "A" with scores of StoreScores
RECURSIVE EntryLists(_)
EntryLists(n) ==
    IF n = 0 THEN {<<>>}
    ELSE LET shorter == EntryLists(n - 1)
         IN  shorter \cup
             { Append(l, Entry("A", p)) : l \in shorter, p \in StoreScores }

\* n entries named "F" of score p
Filler(n, p) == [i \in 1..n |-> Entry("F", p)]

\* SCORES_FILE: missing, unreadable as JSON, or holding any list of
\* entries, sorted or not, of up to MaxFill + 2 entries
StoredFiles ==
    { [kind |-> "missing", data |-> <<>>], [kind |-> "corrupt", data |-> <<>>] }
    \cup { [kind |-> "list", data |-> l \o Filler(n, p)] :
             l \in EntryLists(2), n \in 0..MaxFill, p \in StoreScores }

load_scores(file) ==
    IF file.kind = "missing" THEN <<>>
    ELSE IF file.kind = "corrupt" THEN <<>>
    ELSE IF file.kind = "unreadable" THEN <<>>
    ELSE file.data

\* sorted(scores, key=lambda s: s["score"], reverse=True): a stable sort,
\* entries of equal score keep their order
RECURSIVE SortedByScore(_)
SortedByScore(scores) ==
    IF scores = <<>> THEN <<>>
    ELSE LET k == CHOOSE i \in 1..Len(scores) :
                    /\ \A j \in 1..Len(scores) :
                         scores[j].score <= scores[i].score
                    /\ \A j \in 1..(i - 1) :
                         scores[j].score < scores[i].score
         IN  <<scores[k]>> \o
             SortedByScore(SubSeq(scores, 1, k - 1)
                             \o SubSeq(scores, k + 1, Len(scores)))

\* scores[:n]
Take(scores, n) ==
    SubSeq(scores, 1, IF Len(scores) < n THEN Len(scores) ELSE n)

\* the list cut to the top 20 before the new entry is appended
Saved_CutFirst(scores, name, points) ==
    Append(Take(SortedByScore(scores), TopScores), Entry(name, points))

\* the list save_score writes, given the list it loaded
Saved(scores, name, points) ==
    Take(SortedByScore(Append(scores, Entry(name, points))), TopScores)

\* the leaderboard on a file that can be written
StoreInit ==
    /\ GameOff
    /\ solver = Idle
    /\ \E file \in StoredFiles :
         store = [phase |-> "store", file |-> file, writable |-> TRUE,
                  saves |-> 0, last |-> Entry("", 0), raised |-> "none"]

\* the store after save_score(name, score) on the store st: the list is
\* loaded, extended, sorted and cut, then open(SCORES_FILE, "w") either
\* succeeds and the list is written, or raises OSError before anything is
\* written; save_score has no try statement, so the exception leaves it
SaveOutcome(st, name, points) ==
    IF st.writable
    THEN [st EXCEPT
            !.file = [kind |-> "list",
                      data |-> Saved(load_scores(st.file), name, points)],
            !.saves = @ + 1,
            !.last = Entry(name, points),
            !.raised = "none"]
    ELSE [st EXCEPT
            !.saves = @ + 1,
            !.last = Entry(name, points),
            !.raised = "OSError"]

\* save_score(name, score)
save_score(name, points) ==
    /\ store.phase = "store"
    /\ store.saves < MaxSaves
    /\ store' = SaveOutcome(store, name, points)
    /\ UNCHANGED <<game_vars, solver>>

StoreNext == \E points \in StoreScores : save_score("N", points)

StoreSpec == StoreInit /\ [][StoreNext]_vars

----------------------------------------------------------------------------
(* The game-over name entry together with the leaderboard file *)

\* SCORES_FILE as the name entry may meet it: as above, or present but not
\* readable
PersistFiles ==
    StoredFiles \cup { [kind |-> "unreadable", data |-> <<>>] }

\* sessions of seed "tan" that have reached the name entry: expired by a
\* first tick of 15 s with nothing credited, expired by it with "an"
\* credited, completed with "an" and "tan" credited before the first second
EndedSessions ==
    LET s == Setup(Dictionary, <<"t","a","n">>, <<"t","a","n">>)
    IN  { [session |-> s, found_words |-> {}, bonus_found |-> {},
           score |-> 0, message |-> "", timer_seconds |-> 0,
           now |-> 15000, last_tick |-> 15000, status |-> "Expired"],
          [session |-> s, found_words |-> {}, bonus_found |-> {<<"a","n">>},
           score |-> 2 * BonusPointsPerLetter, message |-> "Bonus!",
           timer_seconds |-> 2, now |-> 15000, last_tick |-> 15000,
           status |-> "Expired"],
          [session |-> s, found_words |-> {<<"t","a","n">>},
           bonus_found |-> {<<"a","n">>},
           score |-> 2 * BonusPointsPerLetter + 3 * PointsPerLetter
                       + CompletionBonus,
           message |-> "All words found!",
           timer_seconds |-> s.timer_seconds + 2 + 3 * time_bonus_per_letter,
           now |-> 0, last_tick |-> 0, status |-> "Complete"] }

\* main_game is in the name entry of an ended session; SCORES_FILE is in
\* any state, writable or not
PersistInit ==
    /\ \E e \in EndedSessions :
         /\ valid_words = e.session.valid_words
         /\ possible_words = e.session.possible_words
         /\ letter_buttons = e.session.letter_buttons
         /\ found_words = e.found_words
         /\ bonus_found = e.bonus_found
         /\ score = e.score
         /\ message = e.message
         /\ timer_seconds = e.timer_seconds
         /\ now = e.now
         /\ last_tick = e.last_tick
         /\ status = e.status
    /\ current_guess = <<>>
    /\ game_over = TRUE
    /\ running = TRUE
    /\ pc = "name_entry"
    /\ saved = 0
    /\ solver = Idle
    /\ \E file \in PersistFiles, w \in BOOLEAN :
         store = [phase |-> "store", file |-> file, writable |-> w,
                  saves |-> 0, last |-> Entry("", 0), raised |-> "none"]

\* K_RETURN in the name entry: save_score(n, score), then return.  An
\* exception raised by save_score is caught neither in main_game nor in
\* run(): the process ends with a traceback ("crashed")
PersistEnter ==
    /\ pc = "name_entry"
    /\ store.phase = "store"
    /\ store.saves < MaxSaves
    /\ store' = SaveOutcome(store, "ANON", score)
    /\ saved' = saved + 1
    /\ IF store'.raised = "none"
       THEN LeaveGame("returned")
       ELSE LeaveGame("crashed")
    /\ UNCHANGED solver

\* QUIT in the name entry: pygame.quit() and return, nothing is saved
PersistQuit ==
    /\ pc = "name_entry"
    /\ store.phase = "store"
    /\ LeaveGame("exited")
    /\ UNCHANGED <<saved, solver, store>>

PersistNext == PersistEnter \/ PersistQuit

PersistSpec == PersistInit /\ [][PersistNext]_vars

----------------------------------------------------------------------------
(* Vocabulary of the properties *)

\* a guess is submitted, by the Enter key or by the SUBMIT button
SubmitStep == KReturn \/ ClickSubmit

\* the guess a submission in the current state would make
Guess == GuessOf(current_guess)

PossibleSet == Range(possible_words)

\* the classification by precedence: AlreadyFound, Correct, Bonus, Invalid
Precedence(g) ==
    IF g \in found_words \cup bonus_found THEN "Already found!"
    ELSE IF g \in PossibleSet THEN "Good!"
    ELSE IF g \in valid_words THEN "Bonus!"
    ELSE "Invalid!"

\* a step of one session (every step but the start of the next main_game)
SameSession == pc # "returned"

Eat == <<"e","a","t">>
Ate == <<"a","t","e">>
Tea == <<"t","e","a">>
Tan == <<"t","a","n">>
An  == <<"a","n">>

----------------------------------------------------------------------------
(* C1: every submission of a non-empty guess g is classified AlreadyFound   *)
(* if g is in Found or BonusFound, otherwise Correct if g is in            *)
(* PossibleWords, otherwise Bonus if g is in the dictionary, otherwise     *)
(* Invalid -- although the handlers test Bonus before Correct.             *)
C1_Classification ==
    [][SubmitStep /\ Guess # <<>> => message' = Precedence(Guess)]_vars

\* a duplicate was submitted after both a visible and a bonus word were credited
C1_Witness ==
    /\ message = "Already found!"
    /\ found_words # {}
    /\ bonus_found # {}

(* C2: a submission classified Correct for w adds w to Found, adds          *)
(* 10 x len(w) to the score and 2 x len(w) to the timer and leaves         *)
(* BonusFound and PossibleWords alone.                                     *)
C2_CorrectEffect ==
    [][SubmitStep /\ message' = "Good!" =>
          /\ Guess \notin found_words
          /\ found_words' = found_words \cup {Guess}
          /\ score' = score + 10 * Len(Guess)
          /\ timer_seconds' = timer_seconds + 2 * Len(Guess)
          /\ bonus_found' = bonus_found
          /\ possible_words' = possible_words]_vars

\* "eat" guessed first in a session of three words (27 s): 30 points, +6 s
C2_Witness ==
    /\ message = "Good!"
    /\ found_words = {Eat}
    /\ score = 30
    /\ timer_seconds = 33

(* C3: a submission classified Bonus for w adds w to BonusFound, adds       *)
(* 5 x len(w) to the score and len(w) to the timer and leaves Found and    *)
(* PossibleWords alone.                                                    *)
C3_BonusEffect ==
    [][SubmitStep /\ message' = "Bonus!" =>
          /\ Guess \in valid_words \ PossibleSet
          /\ Guess \notin bonus_found
          /\ bonus_found' = bonus_found \cup {Guess}
          /\ score' = score + 5 * Len(Guess)
          /\ timer_seconds' = timer_seconds + Len(Guess)
          /\ found_words' = found_words
          /\ possible_words' = possible_words]_vars

\* "an" claimed first in a session of one word (10 s): 10 points, +2 s
C3_Witness ==
    /\ message = "Bonus!"
    /\ bonus_found = {An}
    /\ found_words = {}
    /\ score = 10
    /\ timer_seconds = 12

(* C4: a submission classified Empty, AlreadyFound or Invalid changes none  *)
(* of Found, BonusFound, score, timer, status and PossibleWords.           *)
C4_NoMutation ==
    [][SubmitStep /\ message' \in {"No input!", "Already found!", "Invalid!"}
          => UNCHANGED <<found_words, bonus_found, score, timer_seconds,
                         game_over, status, possible_words>>]_vars

\* an invalid guess was submitted after a word had been credited
C4_Witness ==
    /\ message = "Invalid!"
    /\ found_words # {}
    /\ score > 0

(* C5: a word is credited at most once: a submission of a word already in   *)
(* Found or BonusFound is AlreadyFound and leaves the score alone, a       *)
(* submission of a possible word not yet found is Correct, and a credited  *)
(* word stays credited for the rest of the session.                        *)
C5_CreditedOnce ==
    [][/\ SubmitStep /\ Guess \in found_words \cup bonus_found =>
            message' = "Already found!" /\ score' = score
       /\ SubmitStep /\ Guess \in PossibleSet \ found_words =>
            message' = "Good!" /\ Guess \in found_words'
       /\ SubmitStep /\ Guess \in (valid_words \ PossibleSet) \ bonus_found =>
            message' = "Bonus!" /\ Guess \in bonus_found'
       /\ SameSession =>
            found_words \subseteq found_words'
              /\ bonus_found \subseteq bonus_found']_vars

\* "eat" submitted twice in a row: still 30 points
C5_Witness ==
    /\ message = "Already found!"
    /\ found_words = {Eat}
    /\ bonus_found = {}
    /\ score = 30

(* C6 as stated: once an iteration's event processing is over, a session   *)
(* whose Found equals PossibleWords and whose timer had not expired is     *)
(* Complete.  It fails when Escape or NEW GAME follows the completing      *)
(* guess in the same iteration.                                            *)
C6_CompleteInSameStep ==
    (pc # "events" /\ found_words = PossibleSet /\ status # "Expired")
        => status = "Complete"

(* C6, amended: the completion check that ends the iteration in which a     *)
(* Correct guess made Found equal to PossibleWords adds 100 to the score   *)
(* and makes the Active session Complete, whatever the timer shows; no     *)
(* iteration starts with all words found.  (An Escape or NEW GAME event    *)
(* processed before that check abandons the session instead.)              *)
C6_CompletionAtCheck ==
    /\ [](pc = "tick" => found_words # PossibleSet)
    /\ [][/\ pc = "events" /\ pc' \notin {"events", "returned"}
          /\ found_words = PossibleSet /\ status = "Active"
          => /\ score' = score + 100
             /\ status' = "Complete"
             /\ game_over'
             /\ pc' = "name_entry"]_vars

\* eat, ate and tea found: Complete with 3 x 30 + 100 points
C6_Witness ==
    /\ pc = "name_entry"
    /\ found_words = {Ate, Eat, Tea}
    /\ status = "Complete"
    /\ score = 190

(* C7: a tick of n >= 1 whole seconds on an Active session sets the timer   *)
(* to max(0, timer - n) and, when that is 0, expires the session in the    *)
(* same tick; the timer is never negative.                                 *)
C7_TickClamp ==
    /\ [](timer_seconds >= 0)
    /\ [][/\ pc = "tick" /\ pc' = "events" /\ status = "Active"
          /\ (now' - last_tick) \div 1000 >= 1
          => LET n == (now' - last_tick) \div 1000
             IN  /\ timer_seconds' = IF timer_seconds - n > 0
                                     THEN timer_seconds - n ELSE 0
                 /\ timer_seconds' = 0 =>
                      status' = "Expired" /\ game_over']_vars

\* a session of 10 s without any credit, ticked 2 s, 3 s and then, with
\* 5 s left, 15 s: expired at once with the timer at 0
C7_Witness ==
    /\ pc = "events"
    /\ status = "Expired"
    /\ timer_seconds = 0
    /\ last_tick = 20000
    /\ Len(possible_words) = 1
    /\ found_words = {}
    /\ bonus_found = {}

(* C8: within a session the status only goes from Active to Complete or     *)
(* from Active to Expired.                                                 *)
C8_OneWayStatus ==
    [][SameSession =>
          \/ status' = status
          \/ status = "Active" /\ status' \in {"Complete", "Expired"}]_vars

(* C9: once the session is Expired or Complete, no later step of the        *)
(* session changes the score, Found, BonusFound or the timer.              *)
C9_TerminalFrozen ==
    [][SameSession /\ status # "Active" =>
          UNCHANGED <<score, found_words, bonus_found, timer_seconds>>]_vars

(* C10: the score is never negative and never decreases within a session.   *)
C10_ScoreMonotone ==
    /\ [](score >= 0)
    /\ [][SameSession => score' >= score]_vars

\* "an", then "tan", then the completion bonus: 10 + 30 + 100
C10_Witness ==
    /\ status = "Complete"
    /\ bonus_found = {An}
    /\ found_words = {Tan}
    /\ score = 140

----------------------------------------------------------------------------
\* number of occurrences of x in the list l
Count(x, l) == Cardinality({i \in 1..Len(l) : l[i] = x})

\* the multiset of the entries of l
BagOf(l) == [x \in Range(l) |-> Count(x, l)]

\* the letters shown on the buttons, in display order
Displayed == [i \in 1..Len(letter_buttons) |-> LowerOf[letter_buttons[i].text]]

\* main_game is in its loop or in the name entry
InGame == pc \in {"tick", "events", "name_entry"}

(* C11: Found is a subset of PossibleWords, BonusFound a subset of the      *)
(* dictionary minus PossibleWords, so the two are disjoint, and within a   *)
(* session both sets only grow.                                            *)
C11_FoundSets ==
    /\ [](/\ found_words \subseteq PossibleSet
          /\ bonus_found \subseteq valid_words \ PossibleSet
          /\ found_words \cap bonus_found = {})
    /\ [][SameSession => /\ found_words \subseteq found_words'
                         /\ bonus_found \subseteq bonus_found']_vars

\* a visible word and a bonus word have both been credited
C11_Witness ==
    /\ pc = "events"
    /\ found_words = {Tan}
    /\ bonus_found = {An}

(* C12: a shuffle (space key or SHUFFLE button) changes nothing but the     *)
(* order of the letter buttons: the words, the score, the timer, the       *)
(* status and the guess in progress stay as they are and every button      *)
(* keeps its letter and its selection; the displayed letters always are    *)
(* the letters of the seed, a possible word that uses all of them.         *)
C12_ShuffleFrame ==
    /\ [](InGame => \E w \in PossibleSet : BagOf(w) = BagOf(Displayed))
    /\ [][KSpace \/ ClickShuffle =>
            /\ UNCHANGED <<valid_words, possible_words, found_words,
                           bonus_found, score, timer_seconds, game_over,
                           status, current_guess, message>>
            /\ BagOf(letter_buttons') = BagOf(letter_buttons)]_vars

\* a guess in progress after a word was found, the selected E shown after
\* the free one
C12_Witness ==
    /\ pc = "events"
    /\ current_guess = <<"e">>
    /\ found_words # {}
    /\ \E i, j \in 1..Len(letter_buttons) :
         /\ i < j
         /\ letter_buttons[i] = [text |-> "E", is_selected |-> FALSE]
         /\ letter_buttons[j] = [text |-> "E", is_selected |-> TRUE]

\* the state of a session that has just been set up
Fresh ==
    /\ pc = "tick"
    /\ status = "Active"
    /\ ~game_over
    /\ score = 0
    /\ found_words = {}
    /\ bonus_found = {}
    /\ timer_seconds = IF 9 * Len(possible_words) > 10
                       THEN 9 * Len(possible_words) ELSE 10

(* C13: a newly constructed session is Active with score 0, Found and       *)
(* BonusFound empty and the timer at max(10, 9 x |PossibleWords|), and     *)
(* PossibleWords never changes during the session.                         *)
C13_FreshSession ==
    /\ Fresh
    /\ [][pc = "returned" => Fresh']_vars
    /\ [][SameSession => possible_words' = possible_words]_vars

\* a session of one possible word starts with 10 s, not 9
C13_Witness ==
    /\ Fresh
    /\ Len(possible_words) = 1
    /\ timer_seconds = 10
    /\ now = 0

(* C18: save_score is called at most once per session, only from the name   *)
(* entry of a session that is Complete or Expired; leaving the game by     *)
(* Escape or NEW GAME saves nothing.                                       *)
C18_SaveOnce ==
    /\ [](saved <= 1 /\ (saved = 1 => status \in {"Complete", "Expired"}))
    /\ [][SameSession /\ saved' # saved =>
            /\ pc = "name_entry"
            /\ status \in {"Complete", "Expired"}
            /\ saved = 0 /\ saved' = 1]_vars
    /\ [][pc = "events" /\ pc' = "returned" => saved' = 0]_vars

\* an expired session whose score was saved from the name entry
C18_Witness ==
    /\ pc = "returned"
    /\ status = "Expired"
    /\ saved = 1

(* C19: whatever the previous session did, the main_game call that follows  *)
(* it starts in a state a first session can start in: score 0, nothing     *)
(* found, a newly computed word list and timer, Active.                    *)
C19_WholesaleReplace ==
    [][pc = "returned" => Init']_vars

\* a completed and saved session of 140 points is about to be replaced
C19_Witness ==
    /\ pc = "returned"
    /\ score = 140
    /\ status = "Complete"
    /\ saved = 1

----------------------------------------------------------------------------
(* Properties of get_possible_words *)

\* a call has returned
Solved == solver.phase = "solver" /\ solver.calls > 0

\* the multiset of w is contained in the multiset of l
SubMultiset(w, l) == \A c \in Range(w) : Count(c, w) <= Count(c, l)

\* the seed is a dictionary word of at least 3 letters and the letters are
\* its letters
ValidSeed ==
    /\ solver.main_word \in solver.words
    /\ Len(solver.main_word) >= 3
    /\ BagOf(solver.letters) = BagOf(solver.main_word)

\* alphabetical order of the lower-case letters
Alphabet == <<"a", "e", "n", "t">>

AlphaRank(c) == CHOOSE i \in 1..Len(Alphabet) : Alphabet[i] = c

\* u comes before v: shorter first, words of one length alphabetically
CanonLess(u, v) ==
    \/ Len(u) < Len(v)
    \/ /\ Len(u) = Len(v)
       /\ \E k \in 1..Len(u) :
            /\ \A j \in 1..(k - 1) : u[j] = v[j]
            /\ AlphaRank(u[k]) < AlphaRank(v[k])

(* C14: for a seed in the dictionary, of at least 3 letters, with letters   *)
(* the letters of the seed, every word of the result is in the dictionary, *)
(* has between 3 and len(letters) letters and a letter multiset contained  *)
(* in that of letters.                                                     *)
C14_Closure ==
    Solved /\ ValidSeed =>
        \A w \in Range(solver.result) :
            /\ w \in solver.words
            /\ 3 <= Len(w) /\ Len(w) <= Len(solver.letters)
            /\ SubMultiset(w, solver.letters)

\* seed "eat" with eat, ate, tea and tan in the dictionary: tan is left out
C14_Witness ==
    /\ Solved
    /\ solver.main_word = Eat
    /\ solver.words = {Eat, Ate, Tea, Tan}
    /\ solver.result = <<Ate, Eat, Tea>>

(* C15: the result is exactly the set of dictionary words of 3 to           *)
(* len(letters) letters whose letter multiset is contained in that of      *)
(* letters, together with the seed.                                        *)
C15_Completeness ==
    Solved =>
        Range(solver.result) =
            { w \in solver.words :
                /\ 3 <= Len(w) /\ Len(w) <= Len(solver.letters)
                /\ SubMultiset(w, solver.letters) } \cup {solver.main_word}

\* seed "neat" with every word in the dictionary: "tee" needs a second e
\* and "an" is too short
C15_Witness ==
    /\ Solved
    /\ solver.main_word = <<"n","e","a","t">>
    /\ solver.words = SolverWords
    /\ BagOf(solver.letters) = BagOf(solver.main_word)
    /\ Range(solver.result) = {Ate, Eat, Tan, Tea, <<"n","e","a","t">>}

(* C16: the result is strictly ascending by (length, alphabetical), hence   *)
(* free of duplicates, and a further call, on the same letters or on any   *)
(* reordering of them, returns the identical list.                         *)
C16_Canonical ==
    /\ [](Solved =>
            \A i \in 1..(Len(solver.result) - 1) :
                CanonLess(solver.result[i], solver.result[i + 1]))
    /\ [][Solved /\ solver'.calls > solver.calls
            => solver'.result = solver.result]_vars

\* scenario A solved twice, the second time on other orderings of e, a, t
C16_Witness ==
    /\ Solved
    /\ solver.calls = 2
    /\ solver.main_word = Eat
    /\ solver.letters = <<"t","a","e">>
    /\ solver.words = {Eat, Ate, Tea, Tan}
    /\ solver.result = <<Ate, Eat, Tea>>

(* C17: a call with a seed shorter than 3 letters, or with letters that are *)
(* not the letters of the seed, fails with InvalidSeed.                    *)
C17_InvalidSeed ==
    (Solved /\ (\/ Len(solver.main_word) < 3
                \/ BagOf(solver.letters) # BagOf(solver.main_word)))
        => solver.raised = "InvalidSeed"

----------------------------------------------------------------------------
(* Properties of the leaderboard file *)

\* the new entry ranks in the top 20 of the list it is added to: fewer
\* than 20 stored entries score at least as much
RanksInTop(scores, entry) ==
    Cardinality({i \in 1..Len(scores) : scores[i].score >= entry.score}) < 20

(* C20: after every save_score call, on any stored list, the stored list is *)
(* sorted by score in descending order, has at most 20 entries and         *)
(* contains the entry just saved if that entry ranks in the top 20.        *)
C20_Leaderboard ==
    [][store.phase = "store" /\ store'.saves > store.saves =>
         LET before == load_scores(store.file)
             after == store'.file.data
         IN  /\ store'.file.kind = "list"
             /\ Len(after) <= 20
             /\ \A i, j \in 1..Len(after) :
                  i < j => after[i].score >= after[j].score
             /\ RanksInTop(before, store'.last) =>
                  \E i \in 1..Len(after) : after[i] = store'.last]_vars

\* a second save of 140 points on a full list: the entry heads the list of 20
C20_Witness ==
    /\ store.phase = "store"
    /\ store.saves = 2
    /\ Len(store.file.data) = 20
    /\ store.last = Entry("N", 140)
    /\ store.file.data[1].score = 140
    /\ store.file.data[20].score = 30
    /\ \E i \in 1..20 : store.file.data[i] = store.last

----------------------------------------------------------------------------
(* Properties of the name entry with the leaderboard file *)

(* C21: a persistence failure is recovered inside the score store: loading  *)
(* an unreadable or corrupt file gives the empty list, and a save_score    *)
(* call that cannot write the file raises nothing, so that the name entry  *)
(* returns to the menu as after a successful save.                         *)
C21_FailureRecovered ==
    /\ [](store.phase = "store" /\ store.file.kind \in {"unreadable", "corrupt"}
            => load_scores(store.file) = <<>>)
    /\ [](store.phase = "store" => store.raised = "none")
    /\ [][pc = "name_entry" /\ saved' = saved + 1 => pc' = "returned"]_vars

----------------------------------------------------------------------------
(* Properties of the clock *)

\* the sum of the lengths of the words of S
RECURSIVE SumLen(_)
SumLen(S) ==
    IF S = {} THEN 0
    ELSE LET w == CHOOSE x \in S : TRUE IN Len(w) + SumLen(S \ {w})

\* the timer a session starts with
StartTimer ==
    IF 9 * Len(possible_words) > 10 THEN 9 * Len(possible_words) ELSE 10

\* the seconds the ticks have subtracted from the timer so far: what the
\* session started with and was granted, less what is left
Subtracted ==
    StartTimer + 2 * SumLen(found_words) + SumLen(bonus_found) - timer_seconds

(* C22: the timer decrement does not depend on how often the loop reads the *)
(* clock: while the session is Active, whatever the polling instants, the  *)
(* seconds subtracted up to the clock reading t (in ms since the session   *)
(* started) are floor(t / 1000); last_tick moves by whole seconds only and *)
(* the part of a second left over is carried to the next reading.          *)
C22_PollingIndependent ==
    /\ [](pc \in {"tick", "events"} /\ status = "Active" =>
            /\ Subtracted = now \div 1000
            /\ last_tick = (now \div 1000) * 1000)
    /\ [][pc = "tick" /\ pc' = "events" =>
            /\ (last_tick' - last_tick) % 1000 = 0
            /\ status' = "Active" =>
                 timer_seconds - timer_seconds'
                    = (now' \div 1000) - (now \div 1000)]_vars

\* three readings 2.5 s apart in a session of 27 s: 2, 3 and 2 seconds
\* subtracted, half a second carried
C22_Witness ==
    /\ pc = "events"
    /\ status = "Active"
    /\ now = 7500
    /\ last_tick = 7000
    /\ found_words = {}
    /\ bonus_found = {}
    /\ timer_seconds = 20

----------------------------------------------------------------------------
(* Properties of the score *)

\* 1 if the completion bonus has been awarded, else 0
BonusAwarded == IF status = "Complete" THEN 1 ELSE 0

(* C23: in every state of a session the score is 10 x the letters of the    *)
(* words in Found plus 5 x the letters of the words in BonusFound plus     *)
(* 100 x c, where c is 1 if the completion bonus has been awarded and 0    *)
(* otherwise; c is 1 only if Found = PossibleWords, and the completion     *)
(* bonus is added at most once in a session.                               *)
C23_ScoreAccounting ==
    /\ [](score = 10 * SumLen(found_words) + 5 * SumLen(bonus_found)
                    + 100 * BonusAwarded)
    /\ [](BonusAwarded = 1 => found_words = PossibleSet)
    /\ [][SameSession /\ BonusAwarded = 1 =>
            BonusAwarded' = 1 /\ score' = score]_vars
    /\ [][SameSession /\ BonusAwarded' # BonusAwarded =>
            score' = score + 100]_vars

\* "an" and "tan" credited after a reading at 2.5 s, then the completion
\* bonus: 10 + 30 + 100 points at the name entry, 10 - 2 + 2 + 6 s left
C23_Witness ==
    /\ pc = "name_entry"
    /\ message = "All words found!"
    /\ found_words = {Tan}
    /\ bonus_found = {An}
    /\ score = 140
    /\ now = 2500
    /\ timer_seconds = 16

----------------------------------------------------------------------------
(* Properties of the guess in progress *)

\* the letters of the selected buttons, in display order
Selected ==
    LET sel == SelectSeq(letter_buttons, LAMBDA b : b.is_selected)
    IN  [i \in 1..Len(sel) |-> LowerOf[sel[i].text]]

\* a step that empties the guess: Enter, SUBMIT, CLEAR, Backspace
ResetStep == KReturn \/ ClickSubmit \/ ClickClear \/ KBackspace

(* C24: after any sequence of letter keys, letter clicks (selecting and     *)
(* deselecting), Clear, Backspace, Submit, Enter and shuffles, the letters *)
(* of current_guess are, as a multiset, the letters of the selected        *)
(* buttons; so a guess uses no letter more often than it is displayed and  *)
(* is no longer than the displayed letters, and after Submit, Enter, Clear *)
(* or Backspace the guess is empty and no button is selected.              *)
C24_GuessBuffer ==
    /\ [](InGame =>
            /\ BagOf(current_guess) = BagOf(Selected)
            /\ SubMultiset(current_guess, Displayed)
            /\ Len(current_guess) <= Len(Displayed))
    /\ [][ResetStep =>
            /\ current_guess' = <<>>
            /\ \A i \in 1..Len(letter_buttons') :
                 ~letter_buttons'[i].is_selected]_vars

\* T and the E shown second are selected, the E shown first is not (it
\* was passed over by a click, or selected by the key and clicked off)
C24_Witness ==
    /\ pc = "events"
    /\ current_guess = <<"t", "e">>
    /\ Selected \in {<<"t", "e">>, <<"e", "t">>}
    /\ \E i, j \in 1..Len(letter_buttons) :
         /\ i < j
         /\ letter_buttons[i] = [text |-> "E", is_selected |-> FALSE]
         /\ letter_buttons[j] = [text |-> "E", is_selected |-> TRUE]

----------------------------------------------------------------------------
(* Properties of the two submission paths *)

(* C25: the Enter key and the SUBMIT button are equivalent: from one and    *)
(* the same session state and guess they give the same classification and  *)
(* the same Found, BonusFound, score, timer and emptied guess (and leave    *)
(* everything else as the other does).                                     *)
C25_SamePaths ==
    /\ [](pc = "events" =>
            LET rb == ReturnBranch(Guess)
                sb == SubmitBranch(Guess)
            IN  /\ rb = sb
                /\ ReturnPoints(rb, Guess) = SubmitPoints(sb, Guess)
                /\ ReturnSeconds(rb, Guess) = SubmitSeconds(sb, Guess))
    /\ [][KReturn <=> ClickSubmit]_vars
    /\ [][SubmitStep => current_guess' = <<>>]_vars

\* "an" submitted a second time, by either path: already found, 10 points
C25_Witness ==
    /\ pc = "events"
    /\ message = "Already found!"
    /\ bonus_found = {An}
    /\ found_words = {}
    /\ score = 10
    /\ timer_seconds = 12
    /\ current_guess = <<>>

----------------------------------------------------------------------------
(* Properties of the bonus words *)

\* the words credited so far
Credited == found_words \cup bonus_found

(* C26: a guess is made of displayed letters only, so every word credited   *)
(* as Bonus has 1 or 2 letters: a dictionary word of 3 or more letters     *)
(* that the player submits is in PossibleWords and is classified Correct   *)
(* or AlreadyFound, never Bonus; and no credited word has a letter that is *)
(* not displayed.                                                          *)
C26_BonusShort ==
    /\ [](\A w \in bonus_found : Len(w) \in {1, 2})
    /\ [](InGame => \A w \in Credited : SubMultiset(w, Displayed))
    /\ [][SubmitStep /\ Guess \in valid_words /\ Len(Guess) >= 3 =>
            /\ Guess \in PossibleSet
            /\ message' \in {"Good!", "Already found!"}
            /\ bonus_found' = bonus_found]_vars

\* in a session of seed "tan": "an" credited as Bonus, "tan" credited and
\* then submitted once more in the same iteration
C26_Witness ==
    /\ pc = "events"
    /\ status = "Active"
    /\ message = "Already found!"
    /\ found_words = {Tan}
    /\ bonus_found = {An}
    /\ score = 40

====
